---- MODULE Spec2Model ----
(***************************************************************************)
(* Model of the PDF ingestion pipeline of pdf-ai-agent                     *)
(* (lambda/pdf-processor: handler, splitText, embedAllChunks,              *)
(* createEmbeddingsWithRetry).                                             *)
(*                                                                         *)
(* Strings are sequences of one-character strings.  Every asynchronous     *)
(* call of the code (await) is one action; the synchronous code between    *)
(* two awaits belongs to the action of the await that precedes it.         *)
(***************************************************************************)
EXTENDS Integers, Sequences, FiniteSets, TLC

VARIABLES
  split,    \* the frame of a call of splitText made on its own
  emb,      \* the frame of embedAllChunks and of its createEmbeddingsWithRetry
  h,        \* the frame of the pdf-processor handler
  s3,       \* the bucket: the extracted text of the object stored under each key
  index,    \* the Pinecone index: record id -> record
  env,      \* uploads and invocations so far, and the first complete ingestion of each document
  peer,     \* the frames (h, emb) of a second invocation that runs concurrently
  qh,       \* the frame of the query handler
  up        \* the frame of the upload handler

vars == <<split, emb, h, s3, index, env, peer, qh, up>>

----------------------------------------------------------------------------
(* Bounds *)

MaxLen == 5          \* longest text handed to splitText on its own
MaxWin == 3          \* largest chunkSize / overlap handed to splitText on its own
MaxChunks == MaxLen + 2   \* iterations of splitText's loop that are followed
MaxSeq == 3          \* longest chunk sequence handed to embedAllChunks on its own
MaxBatch == 2        \* largest batchSize handed to embedAllChunks on its own
ChunkSize == 3       \* the handler's chunk size (1000 in the code), scaled down
ChunkOverlap == 1    \* the handler's overlap (200 in the code), scaled down
EmbedBatchSize == 2  \* the handler's embedding batch size (64 in the code), scaled down
UpsertBatchSize == 2 \* the handler's upsert batch size (100 in the code), scaled down
MaxRecords == 2      \* most notifications in one event
MaxUploads == 2      \* uploads followed
MaxInvocations == 2  \* invocations followed

----------------------------------------------------------------------------
(* Helpers of the JavaScript runtime *)

Min(a, b) == IF a < b THEN a ELSE b
Max(a, b) == IF a > b THEN a ELSE b

Chars == {" ", "a"}

TextsUpTo(n) == UNION {[1..k -> Chars] : k \in 0..n}

\* String.prototype.slice(b, e): negative arguments count from the end,
\* both are clamped to [0, len], and an empty string results when b >= e.
Slice(s, b, e) ==
  LET len == Len(s)
      from == IF b < 0 THEN Max(len + b, 0) ELSE Min(b, len)
      to == IF e < 0 THEN Max(len + e, 0) ELSE Min(e, len)
  IN IF from >= to THEN <<>> ELSE SubSeq(s, from + 1, to)

----------------------------------------------------------------------------
(* splitText *)

\* The frame of one call of splitText; spans records the (start, end) pair
\* of every chunk pushed.
SplitCall(text, chunkSize, overlap) ==
  [text |-> text, chunkSize |-> chunkSize, overlap |-> overlap,
   start |-> 0, chunks |-> <<>>, spans |-> <<>>, pc |-> "loop"]

\* SplitIter with the overlap forgotten: the next chunk starts at end.
SplitIter_NoOverlap(f) ==
  LET len == Len(f.text)
      end == Min(f.start + f.chunkSize, len)
      pushed == [f EXCEPT !.chunks = Append(f.chunks, Slice(f.text, f.start, end)),
                          !.spans = Append(f.spans, <<f.start, end>>)]
  IN IF ~(f.start < len) THEN [f EXCEPT !.pc = "returned"]
     ELSE IF end = len THEN [pushed EXCEPT !.pc = "returned"]
     ELSE [pushed EXCEPT !.start = Max(0, end)]

\* SplitIter with a loop that only runs while a full window is left.
SplitIter_DropTail(f) ==
  LET len == Len(f.text)
      end == Min(f.start + f.chunkSize, len)
      pushed == [f EXCEPT !.chunks = Append(f.chunks, Slice(f.text, f.start, end)),
                          !.spans = Append(f.spans, <<f.start, end>>)]
  IN IF ~(f.start + f.chunkSize <= len) THEN [f EXCEPT !.pc = "returned"]
     ELSE IF end = len THEN [pushed EXCEPT !.pc = "returned"]
     ELSE [pushed EXCEPT !.start = Max(0, end - f.overlap)]

\* One evaluation of the loop condition and, when it holds, of the loop body.
SplitIter(f) ==
  LET len == Len(f.text)
      end == Min(f.start + f.chunkSize, len)
      chunk == Slice(f.text, f.start, end)
      pushed == [f EXCEPT !.chunks = Append(f.chunks, chunk),
                          !.spans = Append(f.spans, <<f.start, end>>)]
  IN IF ~(f.start < len) THEN [f EXCEPT !.pc = "returned"]
     ELSE IF end = len THEN [pushed EXCEPT !.pc = "returned"]
     ELSE [pushed EXCEPT !.start = Max(0, end - f.overlap)]

SplitStep ==
  /\ split.pc = "loop"
  /\ Len(split.chunks) < MaxChunks
  /\ split' = SplitIter(split)
  /\ UNCHANGED <<emb, h, s3, index, env, peer, qh, up>>

\* splitText as a function, for the callers that pass a valid configuration.
RECURSIVE SplitRun(_)
SplitRun(f) == IF f.pc = "returned" THEN f ELSE SplitRun(SplitIter(f))

splitText(text, chunkSize, overlap) == SplitRun(SplitCall(text, chunkSize, overlap)).chunks

----------------------------------------------------------------------------
(* embedAllChunks and createEmbeddingsWithRetry *)

MaxRetries == 5
BackoffBaseMs == 1000
BackoffJitterMs == 250
BackoffCapMs == 8000

\* Values of Math.random() * 250, which lies in [0, 250).
JitterSet == {0, BackoffJitterMs - 1}

Whitespace == {" "}

RECURSIVE TrimStart(_)
TrimStart(s) == IF s # <<>> /\ Head(s) \in Whitespace THEN TrimStart(Tail(s)) ELSE s

RECURSIVE TrimEnd(_)
TrimEnd(s) ==
  IF s # <<>> /\ s[Len(s)] \in Whitespace THEN TrimEnd(SubSeq(s, 1, Len(s) - 1)) ELSE s

Trim(s) == TrimEnd(TrimStart(s))

Digits == <<"0", "1", "2", "3", "4", "5", "6", "7", "8", "9">>

\* The decimal representation of a non-negative integer.
RECURSIVE DecimalOf(_)
DecimalOf(n) ==
  IF n < 10 THEN <<Digits[n + 1]>> ELSE DecimalOf(n \div 10) \o <<Digits[(n % 10) + 1]>>

RECURSIVE Pow2(_)
Pow2(n) == IF n = 0 THEN 1 ELSE 2 * Pow2(n - 1)

\* The errors openai.embeddings.create may reject with: status and
\* response.status, 0 standing for an absent field.
ProviderErrors ==
  {[status |-> st, rstatus |-> 0] : st \in {400, 429, 499, 500, 599, 600}}
  \cup {[status |-> 0, rstatus |-> 503], [status |-> 0, rstatus |-> 0],
        [status |-> 404, rstatus |-> 503]}

NoError == [status |-> -1, rstatus |-> -1]

\* err?.status || err?.response?.status
StatusOf(err) == IF err.status # 0 THEN err.status ELSE err.rstatus

\* Retryable without the rate-limit status.
Retryable_No429(status) == status >= 500 /\ status < 600

\* is429 || is5xx
Retryable(status) == status = 429 \/ (status >= 500 /\ status < 600)

\* The vector the provider returns for one input: the same for the same text.
EmbeddingOf(input) == <<Len(input), Cardinality({k \in 1..Len(input) : input[k] = "a"})>>

NoEmbed == [pc |-> "none"]

\* 429 and 5xx, as the retry policy is specified.
TransientStatus(status) == status = 429 \/ status \in 500..599

\* NonEmptyOf without the filter on the trimmed length.
NonEmptyOf_NoFilter(chunks, start, batchSize) ==
  LET raw == Slice(chunks, start, start + batchSize)
  IN [k \in 1..Len(raw) |-> [text |-> Trim(raw[k]), idx |-> start + (k - 1)]]

\* The trimmed, non-empty chunks of the batch that begins at start, each with
\* its index in chunks.
NonEmptyOf(chunks, start, batchSize) ==
  LET raw == Slice(chunks, start, start + batchSize)
      batch == [k \in 1..Len(raw) |-> [text |-> Trim(raw[k]), idx |-> start + (k - 1)]]
  IN SelectSeq(batch, LAMBDA x : Len(x.text) > 0)

\* Fields of the frame that are not variables of the code: calls counts the
\* provider calls issued for the current batch, delays lists the backoff
\* delays slept for it, rejected is the error of its last rejected call,
\* rejections tells of each rejected call whether its status was 429 or 5xx,
\* and sent is the set of input lists handed to the provider.

\* RetryLoop with one attempt too many.
RetryLoop_OffByOne(f) ==
  IF f.attempt <= f.maxRetries
  THEN [f EXCEPT !.pc = "call", !.calls = f.calls + 1,
                 !.sent = f.sent \cup {[k \in 1..Len(f.nonEmpty) |-> f.nonEmpty[k].text]}]
  ELSE [f EXCEPT !.pc = "threw", !.err = f.lastErr]

\* The head of createEmbeddingsWithRetry's loop: the next call is issued
\* while attempt < maxRetries, the last error is thrown otherwise.
RetryLoop(f) ==
  IF f.attempt < f.maxRetries
  THEN [f EXCEPT !.pc = "call", !.calls = f.calls + 1,
                 !.sent = f.sent \cup {[k \in 1..Len(f.nonEmpty) |-> f.nonEmpty[k].text]}]
  ELSE [f EXCEPT !.pc = "threw", !.err = f.lastErr]

\* The head of embedAllChunks' loop: batches without a non-empty chunk are
\* skipped, the first other batch enters createEmbeddingsWithRetry.
RECURSIVE EmbedLoop(_)
EmbedLoop(f) ==
  IF ~(f.start < Len(f.chunks)) THEN [f EXCEPT !.pc = "returned"]
  ELSE LET nonEmpty == NonEmptyOf(f.chunks, f.start, f.batchSize)
       IN IF Len(nonEmpty) = 0
          THEN EmbedLoop([f EXCEPT !.start = f.start + f.batchSize])
          ELSE RetryLoop([f EXCEPT !.nonEmpty = nonEmpty, !.attempt = 0,
                                   !.lastErr = NoError, !.calls = 0, !.delays = <<>>,
                                   !.rejected = NoError, !.rejections = <<>>])

EmbedCall(chunks, idPrefix, filename, sourceUrl, batchSize, maxRetries) ==
  EmbedLoop([chunks |-> chunks, idPrefix |-> idPrefix, filename |-> filename,
             sourceUrl |-> sourceUrl, batchSize |-> batchSize, maxRetries |-> maxRetries,
             vectors |-> <<>>, start |-> 0, nonEmpty |-> <<>>,
             attempt |-> 0, lastErr |-> NoError, err |-> NoError,
             calls |-> 0, delays |-> <<>>, rejected |-> NoError, rejections |-> <<>>, sent |-> {},
             pc |-> "loop"])

\* VectorOf with the index counted over the records instead of the chunks.
VectorOf_Rank(f, item) ==
  LET rank == Len(f.vectors) + Cardinality({k \in 1..Len(f.nonEmpty) : f.nonEmpty[k].idx < item.idx})
  IN [id |-> f.idPrefix \o <<"-">> \o DecimalOf(rank),
      values |-> EmbeddingOf(item.text),
      metadata |-> [filename |-> f.filename, chunk_index |-> rank,
                    text |-> item.text, source_url |-> f.sourceUrl]]

\* VectorOf with an id that depends on the number of provider calls made.
VectorOf_CallCount(f, item) ==
  [id |-> f.idPrefix \o <<"-">> \o DecimalOf(item.idx + f.calls - 1),
   values |-> EmbeddingOf(item.text),
   metadata |-> [filename |-> f.filename, chunk_index |-> item.idx,
                 text |-> item.text, source_url |-> f.sourceUrl]]

VectorOf(f, item) ==
  [id |-> f.idPrefix \o <<"-">> \o DecimalOf(item.idx),
   values |-> EmbeddingOf(item.text),
   metadata |-> [filename |-> f.filename, chunk_index |-> item.idx,
                 text |-> item.text, source_url |-> f.sourceUrl]]

\* The provider answers the call: one record per non-empty chunk is pushed
\* and the loop of embedAllChunks goes on with the next batch.
EmbedResolved(f) ==
  EmbedLoop([f EXCEPT !.vectors = f.vectors \o [j \in 1..Len(f.nonEmpty) |-> VectorOf(f, f.nonEmpty[j])],
                      !.start = f.start + f.batchSize])

\* BackoffMs without the cap.
BackoffMs_NoCap(attempt, jitter) == BackoffBaseMs * Pow2(attempt) + jitter

BackoffMs(attempt, jitter) ==
  Min(BackoffBaseMs * Pow2(attempt) + jitter, BackoffCapMs)

\* EmbedRejected with a catch that gives the batch up and goes on with the
\* next one.
EmbedRejected_SkipsBatch(f, err, jitter) ==
  EmbedLoop([f EXCEPT !.lastErr = err, !.rejected = err,
                      !.rejections = Append(f.rejections, TransientStatus(StatusOf(err))),
                      !.start = f.start + f.batchSize])

\* EmbedRejected with a catch that re-raises at once, without a sleep, when
\* the rejected call was the last one allowed.
EmbedRejected_NoFinalSleep(f, err, jitter) ==
  IF ~Retryable(StatusOf(err)) \/ f.attempt + 1 >= f.maxRetries
  THEN [f EXCEPT !.lastErr = err, !.err = err, !.pc = "threw", !.rejected = err,
                 !.rejections = Append(f.rejections, TransientStatus(StatusOf(err)))]
  ELSE [f EXCEPT !.lastErr = err, !.pc = "sleep", !.rejected = err,
                 !.rejections = Append(f.rejections, TransientStatus(StatusOf(err))),
                 !.delays = Append(f.delays, BackoffMs(f.attempt, jitter))]

\* The provider rejects the call: the catch block.
EmbedRejected(f, err, jitter) ==
  IF ~Retryable(StatusOf(err))
  THEN [f EXCEPT !.lastErr = err, !.err = err, !.pc = "threw", !.rejected = err,
                 !.rejections = Append(f.rejections, TransientStatus(StatusOf(err)))]
  ELSE [f EXCEPT !.lastErr = err, !.pc = "sleep", !.rejected = err,
                 !.rejections = Append(f.rejections, TransientStatus(StatusOf(err))),
                 !.delays = Append(f.delays, BackoffMs(f.attempt, jitter))]

\* The backoff timer fires: attempt++ and the loop condition is evaluated.
EmbedWoken(f) == RetryLoop([f EXCEPT !.attempt = f.attempt + 1])

----------------------------------------------------------------------------
(* The pdf-processor handler *)

StartsWith(s, prefix) == Len(s) >= Len(prefix) /\ SubSeq(s, 1, Len(prefix)) = prefix

EndsWith(s, suffix) ==
  Len(s) >= Len(suffix) /\ SubSeq(s, Len(s) - Len(suffix) + 1, Len(s)) = suffix

\* String.prototype.replace with a global one-character pattern.
ReplaceAll(s, from, to) == [k \in 1..Len(s) |-> IF s[k] = from THEN to ELSE s[k]]

\* decodeURIComponent on the escapes that occur in the keys of the model.
RECURSIVE PercentDecode(_)
PercentDecode(s) ==
  IF s = <<>> THEN <<>>
  ELSE IF Head(s) = "%" /\ Len(s) >= 3 /\ SubSeq(s, 2, 3) = <<"2", "0">>
       THEN <<" ">> \o PercentDecode(SubSeq(s, 4, Len(s)))
  ELSE IF Head(s) = "%" /\ Len(s) >= 3 /\ SubSeq(s, 2, 3) = <<"2", "B">>
       THEN <<"+">> \o PercentDecode(SubSeq(s, 4, Len(s)))
  ELSE <<Head(s)>> \o PercentDecode(Tail(s))

\* decodeURIComponent(record.s3.object.key.replace(/\+/g, ' '))
DecodeKey(raw) == PercentDecode(ReplaceAll(raw, "+", " "))

\* The key of an object as an S3 notification carries it.
EncodeKey(key) == ReplaceAll(key, " ", "+")

UploadsPrefix == <<"u", "p", "l", "o", "a", "d", "s", "/">>
PdfSuffix == <<".", "p", "d", "f">>

\* key.replace(/\//g, '_').replace(/\./g, '-')
IdPrefix(key) == ReplaceAll(ReplaceAll(key, "/", "_"), ".", "-")

\* `s3://${bucketName}/${key}`
SourceUrl(bucketName, key) == <<"s", "3", ":", "/", "/">> \o bucketName \o <<"/">> \o key

BucketName == <<"b">>

\* The object keys of the model: two that pass the handler's key checks and
\* differ in one character ('.' against '-'), one that fails the suffix check
\* and one, holding a space, that fails the prefix check.
KeyDot == UploadsPrefix \o <<"a", ".", "b">> \o PdfSuffix
KeyDash == UploadsPrefix \o <<"a", "-", "b">> \o PdfSuffix
KeyTxt == UploadsPrefix \o <<"n", ".", "t", "x", "t">>
KeyInbox == <<"i", "n", "/", "e", " ", "f">> \o PdfSuffix

ObjectKeys == {KeyDot, KeyDash, KeyTxt, KeyInbox}

\* The extracted texts of the model: blank, one chunk, three chunks with a
\* blank one in the middle, three chunks without a blank one.
DocTexts ==
  {<<" ", " ">>, <<"a", "b">>,
   <<"a", "b", " ", " ", " ", "a", "b">>,
   <<"a", "b", "a", "b", "a", "b", "a">>}

Notifications == {[bucket |-> BucketName, key |-> EncodeKey(k)] : k \in ObjectKeys}

Events == UNION {[1..n -> Notifications] : n \in 0..MaxRecords}

Absent == [present |-> FALSE, text |-> <<>>]

EmptyFn == [x \in {} |-> x]

NoThrow == [source |-> "none", err |-> NoError]

IdleHandler ==
  [pc |-> "idle", event |-> <<>>, rec |-> 1, bucketName |-> <<>>, key |-> <<>>,
   text |-> <<>>, vectors |-> <<>>, i |-> 0, error |-> NoThrow,
   upserts |-> 0, deleted |-> FALSE, log |-> <<>>, warns |-> <<>>,
   prev |-> [source |-> NoThrow.source, rec |-> 0]]

\* Fields of the frame that are not variables of the code: upserts counts the
\* upsert calls issued for the current document, deleted tells whether its
\* DeleteObject was issued, and log lists the external calls the invocation
\* has issued, in the order of their issue: GetObject, the first provider
\* call of every embedding batch (i is the batch's first chunk index), every
\* upsert (i is the batch's first record index) and DeleteObject, each with
\* the position of its notification in the event and the key; warns lists
\* the notifications the handler left with a console.warn and a continue;
\* prev is the source of the error the delivery before this one ended with
\* and the position of the notification it ended at.
Call(op, f, i) == [op |-> op, rec |-> f.rec, key |-> f.key, i |-> i]

Logged(f, op, i) == [f EXCEPT !.log = Append(f.log, Call(op, f, i))]

Warned(f, why) == [f EXCEPT !.warns = Append(f.warns, [rec |-> f.rec, why |-> why])]

\* HandlerLoop without the check of the key's prefix.
RECURSIVE HandlerLoop_NoPrefixCheck(_)
HandlerLoop_NoPrefixCheck(f) ==
  IF f.rec > Len(f.event) THEN [f EXCEPT !.pc = "done"]
  ELSE LET bucketName == f.event[f.rec].bucket
           key == DecodeKey(f.event[f.rec].key)
       IN IF ~EndsWith(key, PdfSuffix) THEN HandlerLoop_NoPrefixCheck([f EXCEPT !.rec = f.rec + 1])
          ELSE Logged([f EXCEPT !.pc = "get", !.bucketName = bucketName, !.key = key,
                                !.text = <<>>, !.vectors = <<>>, !.i = 0,
                                !.upserts = 0, !.deleted = FALSE], "get", 0)

\* The head of the loop over event.Records: records whose key fails a check
\* are skipped, GetObject is sent for the first other one.
RECURSIVE HandlerLoop(_)
HandlerLoop(f) ==
  IF f.rec > Len(f.event) THEN [f EXCEPT !.pc = "done"]
  ELSE LET bucketName == f.event[f.rec].bucket
           key == DecodeKey(f.event[f.rec].key)
       IN IF ~EndsWith(key, PdfSuffix) THEN HandlerLoop([f EXCEPT !.rec = f.rec + 1])
          ELSE IF ~StartsWith(key, UploadsPrefix) THEN HandlerLoop([f EXCEPT !.rec = f.rec + 1])
          ELSE Logged([f EXCEPT !.pc = "get", !.bucketName = bucketName, !.key = key,
                                !.text = <<>>, !.vectors = <<>>, !.i = 0,
                                !.upserts = 0, !.deleted = FALSE], "get", 0)

Continue(f) == HandlerLoop([f EXCEPT !.rec = f.rec + 1])

\* The handler after embedAllChunks returned, threw or suspended: the pair of
\* the handler's frame and the frame of embedAllChunks.
AfterEmbed(f, e) ==
  IF e.pc = "threw" THEN <<[f EXCEPT !.pc = "failed", !.error = [source |-> "provider", err |-> e.err]], e>>
  ELSE IF e.pc = "returned"
       THEN IF Len(e.vectors) = 0 THEN <<Continue(Warned(f, "no-vectors")), NoEmbed>>
            ELSE <<Logged([f EXCEPT !.pc = "upsert", !.vectors = e.vectors, !.i = 0,
                                    !.upserts = 1], "upsert", 0), NoEmbed>>
  ELSE IF e.pc = "call" /\ \A k \in 1..Len(f.log) : f.log[k] # Call("embed", f, e.start)
       THEN <<Logged([f EXCEPT !.pc = "embed"], "embed", e.start), e>>
  ELSE <<[f EXCEPT !.pc = "embed"], e>>

\* The handler after GetObject returned a body whose extracted text is rawText.
AfterGet(f, rawText) ==
  IF Trim(rawText) = <<>> THEN <<Continue(Warned(f, "no-text")), NoEmbed>>
  ELSE LET docs == splitText(rawText, ChunkSize, ChunkOverlap)
       IN AfterEmbed([f EXCEPT !.text = rawText],
                     EmbedCall(docs, IdPrefix(f.key), f.key, SourceUrl(f.bucketName, f.key),
                               EmbedBatchSize, MaxRetries))

\* index.upsert(batch): insert or overwrite by id, the last record of an id wins.
Upserted(idx, batch) ==
  LET ids == {batch[j].id : j \in 1..Len(batch)}
      last(id) == CHOOSE j \in 1..Len(batch) :
                    batch[j].id = id /\ \A k \in (j + 1)..Len(batch) : batch[k].id # id
  IN [id \in DOMAIN idx \cup ids |-> IF id \in ids THEN batch[last(id)] ELSE idx[id]]

IdsOf(vectors) == {vectors[j].id : j \in 1..Len(vectors)}

\* env.first keeps, for every (key, text) ingested completely, the ids and the
\* records of its first complete ingestion and the number of complete ones.
Completed(e, key, text, vectors, idx) ==
  LET d == <<key, text>>
  IN IF d \in DOMAIN e.first
     THEN [e EXCEPT !.first[d].n = @ + 1]
     ELSE [e EXCEPT !.first = (d :> [ids |-> [j \in 1..Len(vectors) |-> vectors[j].id],
                                     records |-> [id \in IdsOf(vectors) |-> idx[id]],
                                     n |-> 1]) @@ e.first]

\* An object is put into the bucket.  The bucket is read by GetObject and
\* written by DeleteObject only, so a put that arrives while the handler
\* awaits the provider or the index is followed as one that arrives when the
\* handler awaits the next storage call.
Upload ==
  /\ env.uploads < MaxUploads
  /\ h.pc \notin {"embed", "upsert"}
  /\ \E key \in ObjectKeys, text \in DocTexts :
       s3' = [s3 EXCEPT ![key] = [present |-> TRUE, text |-> text]]
  /\ env' = [env EXCEPT !.uploads = @ + 1]
  /\ UNCHANGED <<split, emb, h, index, peer, qh, up>>

Invoke ==
  /\ h.pc \in {"idle", "done", "failed"}
  /\ env.invocations < MaxInvocations
  /\ \E event \in Events :
       h' = HandlerLoop([IdleHandler EXCEPT !.pc = "loop", !.event = event])
  /\ emb' = NoEmbed
  /\ env' = [env EXCEPT !.invocations = @ + 1]
  /\ UNCHANGED <<split, s3, index, peer, qh, up>>

GetObjectOk ==
  /\ h.pc = "get"
  /\ s3[h.key].present
  /\ LET after == AfterGet(h, s3[h.key].text)
     IN h' = after[1] /\ emb' = after[2]
  /\ UNCHANGED <<split, s3, index, env, peer, qh, up>>

GetObjectNoBody ==
  /\ h.pc = "get"
  /\ env.faults
  /\ s3[h.key].present
  /\ h' = Continue(Warned(h, "no-body"))
  /\ UNCHANGED <<split, emb, s3, index, env, peer, qh, up>>

\* GetObjectFail with a handler that sends GetObject again after a rejection.
GetObjectFail_Retried ==
  /\ h.pc = "get"
  /\ env.faults \/ ~s3[h.key].present
  /\ Len(h.log) < 4
  /\ h' = Logged(h, "get", 0)
  /\ UNCHANGED <<split, emb, s3, index, env, peer, qh, up>>

\* GetObject, streamToBuffer or pdf-parse rejects; GetObject always does when
\* the bucket holds no object under the key.
GetObjectFail ==
  /\ h.pc = "get"
  /\ env.faults \/ ~s3[h.key].present
  /\ h' = [h EXCEPT !.pc = "failed", !.error = [source |-> "s3-get", err |-> NoError]]
  /\ UNCHANGED <<split, emb, s3, index, env, peer, qh, up>>

ProviderOk ==
  /\ emb.pc = "call"
  /\ LET after == IF h.pc = "embed" THEN AfterEmbed(h, EmbedResolved(emb))
                  ELSE <<h, EmbedResolved(emb)>>
     IN h' = after[1] /\ emb' = after[2]
  /\ UNCHANGED <<split, s3, index, env, peer, qh, up>>

ProviderFail ==
  /\ emb.pc = "call"
  /\ \E err \in env.errors, jitter \in env.jitters :
       LET after == IF h.pc = "embed" THEN AfterEmbed(h, EmbedRejected(emb, err, jitter))
                    ELSE <<h, EmbedRejected(emb, err, jitter)>>
       IN h' = after[1] /\ emb' = after[2]
  /\ UNCHANGED <<split, s3, index, env, peer, qh, up>>

SleepDone ==
  /\ emb.pc = "sleep"
  /\ LET after == IF h.pc = "embed" THEN AfterEmbed(h, EmbedWoken(emb))
                  ELSE <<h, EmbedWoken(emb)>>
     IN h' = after[1] /\ emb' = after[2]
  /\ UNCHANGED <<split, s3, index, env, peer, qh, up>>

UpsertOk ==
  /\ h.pc = "upsert"
  /\ LET batch == Slice(h.vectors, h.i, h.i + UpsertBatchSize)
         i == h.i + UpsertBatchSize
     IN /\ index' = Upserted(index, batch)
        /\ IF i < Len(h.vectors)
           THEN /\ h' = Logged([h EXCEPT !.i = i, !.upserts = @ + 1], "upsert", i)
                /\ env' = env
           ELSE /\ h' = Logged([h EXCEPT !.i = i, !.pc = "delete", !.deleted = TRUE], "delete", 0)
                /\ env' = Completed(env, h.key, h.text, h.vectors, index')
  /\ UNCHANGED <<split, emb, s3, peer, qh, up>>

\* UpsertFail with a cleanup that deletes the source object on the way out.
UpsertFail_DeletesSource ==
  /\ h.pc = "upsert"
  /\ env.faults
  /\ h' = [h EXCEPT !.pc = "failed", !.error = [source |-> "upsert", err |-> NoError]]
  /\ s3' = [s3 EXCEPT ![h.key] = Absent]
  /\ UNCHANGED <<split, emb, index, env, peer, qh, up>>

UpsertFail ==
  /\ h.pc = "upsert"
  /\ env.faults
  /\ h' = [h EXCEPT !.pc = "failed", !.error = [source |-> "upsert", err |-> NoError]]
  /\ UNCHANGED <<split, emb, s3, index, env, peer, qh, up>>

\* DeleteOk with a delete that removes every object of the bucket's folder.
DeleteOk_WholeFolder ==
  /\ h.pc = "delete"
  /\ s3' = [k \in DOMAIN s3 |-> IF StartsWith(k, UploadsPrefix) THEN Absent ELSE s3[k]]
  /\ h' = Continue(h)
  /\ UNCHANGED <<split, emb, index, env, peer, qh, up>>

DeleteOk ==
  /\ h.pc = "delete"
  /\ s3' = [s3 EXCEPT ![h.key] = Absent]
  /\ h' = Continue(h)
  /\ UNCHANGED <<split, emb, index, env, peer, qh, up>>

\* DeleteFail with a catch that goes on to the next notification.
DeleteFail_Swallowed ==
  /\ h.pc = "delete"
  /\ env.faults
  /\ h' = Continue(h)
  /\ UNCHANGED <<split, emb, s3, index, env, peer, qh, up>>

DeleteFail ==
  /\ h.pc = "delete"
  /\ env.faults
  /\ h' = [h EXCEPT !.pc = "failed", !.error = [source |-> "s3-delete", err |-> NoError]]
  /\ UNCHANGED <<split, emb, s3, index, env, peer, qh, up>>

\* The hosting environment ends the invocation at its timeout, while a call
\* is awaited: an upsert or a delete in flight may or may not take effect.
Timeout ==
  /\ env.faults
  /\ h.pc \in {"get", "embed", "upsert", "delete"}
  /\ h' = [h EXCEPT !.pc = "failed", !.error = [source |-> "timeout", err |-> NoError]]
  /\ emb' = IF emb.pc \in {"call", "sleep"} THEN [emb EXCEPT !.pc = "cut"] ELSE emb
  /\ index' \in IF h.pc = "upsert"
                 THEN {index, Upserted(index, Slice(h.vectors, h.i, h.i + UpsertBatchSize))}
                 ELSE {index}
  /\ s3' \in IF h.pc = "delete" THEN {s3, [s3 EXCEPT ![h.key] = Absent]} ELSE {s3}
  /\ UNCHANGED <<split, env, peer, qh, up>>

NoSplit == [pc |-> "none"]

NoPeer == [h |-> IdleHandler, emb |-> NoEmbed]

NoQuery == [pc |-> "none"]

NoUpload == [pc |-> "none"]

\* The environment at the start: errors and jitters are the rejections and
\* the values of Math.random() * 250 the provider calls may meet, faults
\* tells whether storage and index calls may fail on their own.
EnvOf(errors, jitters) ==
  [uploads |-> 0, invocations |-> 0, first |-> EmptyFn,
   errors |-> errors, jitters |-> jitters, faults |-> TRUE]

Quiet ==
  /\ peer = NoPeer /\ qh = NoQuery /\ up = NoUpload
  /\ h = IdleHandler
  /\ s3 = [k \in ObjectKeys |-> Absent]
  /\ index = EmptyFn
  /\ env = EnvOf(ProviderErrors, JitterSet)

\* One rejection that is retried and one that is not, without jitter.
FewErrors == {[status |-> 429, rstatus |-> 0], [status |-> 400, rstatus |-> 0]}

Init ==
  /\ split = NoSplit /\ emb = NoEmbed /\ h = IdleHandler
  /\ peer = NoPeer /\ qh = NoQuery /\ up = NoUpload
  /\ s3 = [k \in ObjectKeys |-> Absent]
  /\ index = EmptyFn
  /\ env = EnvOf(FewErrors, {0})

Next ==
  \/ Upload \/ Invoke
  \/ GetObjectOk \/ GetObjectNoBody \/ GetObjectFail
  \/ ProviderOk \/ ProviderFail \/ SleepDone
  \/ UpsertOk \/ UpsertFail
  \/ DeleteOk \/ DeleteFail

Spec == Init /\ [][Next]_vars

----------------------------------------------------------------------------
(* One invocation for one stored object, with every rejection and jitter *)

InitIngest ==
  /\ split = NoSplit
  /\ peer = NoPeer /\ qh = NoQuery /\ up = NoUpload
  /\ emb = NoEmbed
  /\ index = EmptyFn
  /\ env = EnvOf(ProviderErrors, JitterSet)
  /\ \E key \in ObjectKeys, text \in DocTexts :
       /\ s3 = [k \in ObjectKeys |->
                  IF k = key THEN [present |-> TRUE, text |-> text] ELSE Absent]
       /\ h = HandlerLoop([IdleHandler EXCEPT
                             !.pc = "loop",
                             !.event = <<[bucket |-> BucketName, key |-> EncodeKey(key)]>>])

NextIngest ==
  \/ GetObjectOk \/ GetObjectNoBody \/ GetObjectFail
  \/ ProviderOk \/ ProviderFail \/ SleepDone
  \/ UpsertOk \/ UpsertFail
  \/ DeleteOk \/ DeleteFail

SpecIngest == InitIngest /\ [][NextIngest]_vars

----------------------------------------------------------------------------
(* The same object ingested again and again *)

\* The event of the last invocation is delivered again, after the object was
\* put again with the same content if the last invocation deleted it.
Reingest ==
  /\ h.pc \in {"done", "failed"}
  /\ env.invocations < MaxInvocations
  /\ s3' = IF h.deleted /\ ~s3[h.key].present
           THEN [s3 EXCEPT ![h.key] = [present |-> TRUE, text |-> h.text]]
           ELSE s3
  /\ h' = HandlerLoop([IdleHandler EXCEPT !.pc = "loop", !.event = h.event,
                                         !.prev = [source |-> h.error.source, rec |-> h.rec]])
  /\ emb' = NoEmbed
  /\ env' = [env EXCEPT !.invocations = @ + 1]
  /\ UNCHANGED <<split, index, peer, qh, up>>

NextReingest == NextIngest \/ Reingest \/ Timeout

SpecReingest == InitIngest /\ [][NextReingest]_vars

----------------------------------------------------------------------------
(* One event of several notifications, and its redelivery after a failure *)

\* The invocation failed and the event is delivered again, as it was and
\* with the bucket as the invocation left it; from then on no collaborator
\* fails on its own, and GetObject rejects for the objects that are gone.
Redeliver ==
  /\ h.pc = "failed"
  /\ env.invocations < MaxInvocations
  /\ h' = HandlerLoop([IdleHandler EXCEPT !.pc = "loop", !.event = h.event,
                                         !.prev = [source |-> h.error.source, rec |-> h.rec]])
  /\ emb' = NoEmbed
  /\ env' = [env EXCEPT !.invocations = @ + 1, !.faults = FALSE, !.errors = {}]
  /\ UNCHANGED <<split, s3, index, peer, qh, up>>

\* The bucket holds an object under each of the two keys that pass the
\* handler's checks, and the handler was invoked with an event.
InitEvents ==
  /\ split = NoSplit /\ qh = NoQuery /\ up = NoUpload /\ emb = NoEmbed /\ peer = NoPeer
  /\ index = EmptyFn
  /\ env = EnvOf(FewErrors, {0})
  /\ \E textDot \in DocTexts, textDash \in DocTexts :
       s3 = [k \in ObjectKeys |->
               IF k = KeyDot THEN [present |-> TRUE, text |-> textDot]
               ELSE IF k = KeyDash THEN [present |-> TRUE, text |-> textDash] ELSE Absent]
  /\ \E event \in Events :
       h = HandlerLoop([IdleHandler EXCEPT !.pc = "loop", !.event = event])

NextEvents == NextIngest \/ Redeliver

SpecEvents == InitEvents /\ [][NextEvents]_vars

----------------------------------------------------------------------------
(* Two invocations that run concurrently *)

\* The steps of the second invocation are the steps of the handler, taken on
\* the frames peer.h and peer.emb; the bucket and the index are the ones the
\* first invocation uses.
PeerGetObjectOk ==
  /\ peer.h.pc = "get"
  /\ s3[peer.h.key].present
  /\ LET after == AfterGet(peer.h, s3[peer.h.key].text)
     IN peer' = [h |-> after[1], emb |-> after[2]]
  /\ UNCHANGED <<split, emb, h, s3, index, env, qh, up>>

PeerGetObjectNoBody ==
  /\ peer.h.pc = "get"
  /\ env.faults
  /\ s3[peer.h.key].present
  /\ peer' = [peer EXCEPT !.h = Continue(Warned(peer.h, "no-body"))]
  /\ UNCHANGED <<split, emb, h, s3, index, env, qh, up>>

PeerGetObjectFail ==
  /\ peer.h.pc = "get"
  /\ env.faults \/ ~s3[peer.h.key].present
  /\ peer' = [peer EXCEPT !.h.pc = "failed", !.h.error = [source |-> "s3-get", err |-> NoError]]
  /\ UNCHANGED <<split, emb, h, s3, index, env, qh, up>>

PeerProviderOk ==
  /\ peer.emb.pc = "call"
  /\ LET after == AfterEmbed(peer.h, EmbedResolved(peer.emb))
     IN peer' = [h |-> after[1], emb |-> after[2]]
  /\ UNCHANGED <<split, emb, h, s3, index, env, qh, up>>

PeerProviderFail ==
  /\ peer.emb.pc = "call"
  /\ \E err \in env.errors, jitter \in env.jitters :
       LET after == AfterEmbed(peer.h, EmbedRejected(peer.emb, err, jitter))
       IN peer' = [h |-> after[1], emb |-> after[2]]
  /\ UNCHANGED <<split, emb, h, s3, index, env, qh, up>>

PeerSleepDone ==
  /\ peer.emb.pc = "sleep"
  /\ LET after == AfterEmbed(peer.h, EmbedWoken(peer.emb))
     IN peer' = [h |-> after[1], emb |-> after[2]]
  /\ UNCHANGED <<split, emb, h, s3, index, env, qh, up>>

PeerUpsertOk ==
  /\ peer.h.pc = "upsert"
  /\ LET batch == Slice(peer.h.vectors, peer.h.i, peer.h.i + UpsertBatchSize)
         i == peer.h.i + UpsertBatchSize
     IN /\ index' = Upserted(index, batch)
        /\ peer' = [peer EXCEPT !.h =
                      IF i < Len(peer.h.vectors)
                      THEN Logged([peer.h EXCEPT !.i = i, !.upserts = @ + 1], "upsert", i)
                      ELSE Logged([peer.h EXCEPT !.i = i, !.pc = "delete", !.deleted = TRUE],
                                  "delete", 0)]
  /\ UNCHANGED <<split, emb, h, s3, env, qh, up>>

PeerUpsertFail ==
  /\ peer.h.pc = "upsert"
  /\ env.faults
  /\ peer' = [peer EXCEPT !.h.pc = "failed", !.h.error = [source |-> "upsert", err |-> NoError]]
  /\ UNCHANGED <<split, emb, h, s3, index, env, qh, up>>

PeerDeleteOk ==
  /\ peer.h.pc = "delete"
  /\ s3' = [s3 EXCEPT ![peer.h.key] = Absent]
  /\ peer' = [peer EXCEPT !.h = Continue(peer.h)]
  /\ UNCHANGED <<split, emb, h, index, env, qh, up>>

PeerDeleteFail ==
  /\ peer.h.pc = "delete"
  /\ env.faults
  /\ peer' = [peer EXCEPT !.h.pc = "failed", !.h.error = [source |-> "s3-delete", err |-> NoError]]
  /\ UNCHANGED <<split, emb, h, s3, index, env, qh, up>>

Stored(text) == [present |-> TRUE, text |-> text]

\* One event of one notification, as S3 delivers it for the key.
EventFor(key) == <<[bucket |-> BucketName, key |-> EncodeKey(key)]>>

Invoked(event) == HandlerLoop([IdleHandler EXCEPT !.pc = "loop", !.event = event])

\* The bucket holds an object under each of the two keys that pass the
\* handler's checks; each invocation was started for one of them, both for
\* the same one or not; storage, index and provider may fail on their own or
\* not at all.
InitConcurrent ==
  /\ split = NoSplit /\ qh = NoQuery /\ up = NoUpload /\ emb = NoEmbed
  /\ index = EmptyFn
  /\ \E faults \in BOOLEAN :
       env = [EnvOf(IF faults THEN FewErrors ELSE {}, {0}) EXCEPT !.faults = faults]
  /\ \E textDot \in DocTexts, textDash \in DocTexts :
       s3 = [k \in ObjectKeys |->
               IF k = KeyDot THEN Stored(textDot)
               ELSE IF k = KeyDash THEN Stored(textDash) ELSE Absent]
  /\ \E key1 \in {KeyDot, KeyDash}, key2 \in {KeyDot, KeyDash} :
       /\ h = Invoked(EventFor(key1))
       /\ peer = [h |-> Invoked(EventFor(key2)), emb |-> NoEmbed]

NextConcurrent ==
  \/ GetObjectOk \/ GetObjectNoBody \/ GetObjectFail
  \/ ProviderOk \/ ProviderFail \/ SleepDone
  \/ UpsertOk \/ UpsertFail
  \/ DeleteOk \/ DeleteFail
  \/ PeerGetObjectOk \/ PeerGetObjectNoBody \/ PeerGetObjectFail
  \/ PeerProviderOk \/ PeerProviderFail \/ PeerSleepDone
  \/ PeerUpsertOk \/ PeerUpsertFail
  \/ PeerDeleteOk \/ PeerDeleteFail

SpecConcurrent == InitConcurrent /\ [][NextConcurrent]_vars

----------------------------------------------------------------------------
(* embedAllChunks called on its own *)

ChunkPool == {<<" ">>, <<"a">>, <<" ", "b">>}

ChunkSeqs == UNION {[1..k -> ChunkPool] : k \in 0..MaxSeq}

InitBatcher ==
  /\ split = NoSplit
  /\ Quiet
  /\ \E chunks \in ChunkSeqs, batchSize \in 1..MaxBatch, maxRetries \in {1, MaxRetries} :
       emb = EmbedCall(chunks, <<"d">>, <<"f">>, <<"u">>, batchSize, maxRetries)

NextBatcher == ProviderOk \/ ProviderFail \/ SleepDone

SpecBatcher == InitBatcher /\ [][NextBatcher]_vars

----------------------------------------------------------------------------
(* splitText called on its own *)

\* splitText's default parameters, and the text of the 2400-character scenario.
DefaultChunkSize == 1000
DefaultOverlap == 200
ScenarioText == [i \in 1..2400 |-> "a"]

SplitInputs ==
  {SplitCall(text, chunkSize, overlap) :
     text \in TextsUpTo(MaxLen), chunkSize \in -1..MaxWin, overlap \in -1..MaxWin}
  \cup {SplitCall(ScenarioText, DefaultChunkSize, DefaultOverlap)}

InitChunker == split \in SplitInputs /\ emb = NoEmbed /\ Quiet

NextChunker == SplitStep

SpecChunker == InitChunker /\ [][NextChunker]_vars

----------------------------------------------------------------------------
(* The query handler *)

DefaultTopK == 5
ContextLimit == 1500

\* A field of the request body: absent, a string or a number.
NoField == [type |-> "absent"]
StringField(s) == [type |-> "string", value |-> s]
NumberField(n) == [type |-> "number", value |-> n]

QueryFields ==
  {NoField, NumberField(0), NumberField(7)}
  \cup {StringField(s) : s \in {<<>>, <<" ">>, <<" ", " ">>, <<"a">>, <<" ", "a", " ">>}}

\* event.body: absent, a string that is not JSON, the string 'null', or a
\* JSON object.
Bodies ==
  {[kind |-> "none"], [kind |-> "malformed"], [kind |-> "null"]}
  \cup {[kind |-> "json", query |-> qf, topK |-> tk] :
          qf \in QueryFields, tk \in {NoField, NumberField(1)}}

\* The environment variables of lines 5-7 that are set.
Configs == [openai : BOOLEAN, pinecone : BOOLEAN, indexName : BOOLEAN]

Requests == [httpMethod : {"", "POST", "GET", "OPTIONS"}, body : Bodies]

\* parseBody: {} for no body and for a string that JSON.parse rejects.
parseBody(body) ==
  IF body.kind \in {"none", "malformed"} THEN [kind |-> "json", query |-> NoField, topK |-> NoField]
  ELSE body

\* x || fallback for a field x.
OrElse(field, fallback) ==
  IF field.type = "absent" THEN fallback
  ELSE IF field.type = "string" /\ field.value = <<>> THEN fallback
  ELSE IF field.type = "number" /\ field.value = 0 THEN fallback
  ELSE field

response(f, statusCode, message) ==
  [f EXCEPT !.pc = "returned", !.statusCode = statusCode, !.message = message]

\* catch (err): response(500, 'Internal Server Error')
Caught(f) == response(f, 500, "Internal Server Error")

Issued(f, call) == [f EXCEPT !.pc = call, !.calls = Append(f.calls, call)]

\* handler without the check of the trimmed query.
QueryEnter_NoQueryCheck(f) ==
  IF ~(f.config.openai /\ f.config.pinecone /\ f.config.indexName)
  THEN response(f, 500, "Missing required environment variables")
  ELSE IF f.event.httpMethod # "" /\ f.event.httpMethod # "POST"
  THEN response(f, 405, "Method Not Allowed")
  ELSE LET body == parseBody(f.event.body)
       IN IF body.kind = "null" THEN Caught(f)
          ELSE LET raw == OrElse(body.query, StringField(<<>>))
                   topK == OrElse(body.topK, NumberField(DefaultTopK)).value
               IN IF raw.type # "string" THEN Caught(f)
                  ELSE Issued([f EXCEPT !.query = Trim(raw.value), !.topK = topK], "embed")

\* The handler from its entry to its first await or its return.
QueryEnter(f) ==
  IF ~(f.config.openai /\ f.config.pinecone /\ f.config.indexName)
  THEN response(f, 500, "Missing required environment variables")
  ELSE IF f.event.httpMethod # "" /\ f.event.httpMethod # "POST"
  THEN response(f, 405, "Method Not Allowed")
  ELSE LET body == parseBody(f.event.body)
       IN IF body.kind = "null" THEN Caught(f)
          ELSE LET raw == OrElse(body.query, StringField(<<>>))
                   topK == OrElse(body.topK, NumberField(DefaultTopK)).value
               IN IF raw.type # "string" THEN Caught(f)
                  ELSE IF Trim(raw.value) = <<>> THEN response(f, 400, "Missing query")
                  ELSE Issued([f EXCEPT !.query = Trim(raw.value), !.topK = topK], "embed")

\* A request as the handler receives it; calls lists the calls to the
\* embedding provider, the index and the language model issued for it.
QueryCall(config, event) ==
  [pc |-> "start", config |-> config, event |-> event,
   query |-> <<>>, topK |-> 0, vector |-> <<>>, matches |-> <<>>, context |-> <<>>,
   statusCode |-> 0, message |-> "", answer |-> <<>>, calls |-> <<>>]

\* The matches index.query may answer with: with a text, with an empty text
\* and without metadata.
MatchPool ==
  {[id |-> <<"m">>, score |-> 1, text |-> StringField(<<"a", "b">>)],
   [id |-> <<"e">>, score |-> 1, text |-> StringField(<<>>)],
   [id |-> <<"n">>, score |-> 0, text |-> NoField]}

\* The n first matches at most, as topK asks.
SearchResults(n) == UNION {[1..k -> MatchPool] : k \in 0..Min(n, 2)}

\* [#rank] (score=...) and the text cut at 1500 characters, one entry per
\* match that carries a text.
ContextOf(matches) ==
  [k \in 1..Len(matches) |->
     [rank |-> k, score |-> matches[k].score,
      text |-> Slice(matches[k].text.value, 0, ContextLimit)]]

QueryStart ==
  /\ qh.pc = "start"
  /\ qh' = QueryEnter(qh)
  /\ UNCHANGED <<split, emb, h, s3, index, env, peer, up>>

QueryEmbedOk ==
  /\ qh.pc = "embed"
  /\ qh' = Issued([qh EXCEPT !.vector = EmbeddingOf(qh.query)], "query")
  /\ UNCHANGED <<split, emb, h, s3, index, env, peer, up>>

QuerySearchOk ==
  /\ qh.pc = "query"
  /\ \E found \in SearchResults(qh.topK) :
       LET matches == SelectSeq(found, LAMBDA m : OrElse(m.text, NoField).type = "string")
       IN qh' = Issued([qh EXCEPT !.matches = matches, !.context = ContextOf(matches)],
                       "complete")
  /\ UNCHANGED <<split, emb, h, s3, index, env, peer, up>>

QueryCompleteOk ==
  /\ qh.pc = "complete"
  /\ \E content \in {<<>>, <<" ", "o", "k">>} :
       qh' = [response(qh, 200, "") EXCEPT !.answer = Trim(content)]
  /\ UNCHANGED <<split, emb, h, s3, index, env, peer, up>>

\* The call that is awaited rejects.
QueryCallFail ==
  /\ qh.pc \in {"embed", "query", "complete"}
  /\ qh' = Caught(qh)
  /\ UNCHANGED <<split, emb, h, s3, index, env, peer, up>>

InitQuery ==
  /\ split = NoSplit /\ emb = NoEmbed /\ h = IdleHandler /\ peer = NoPeer
  /\ up = NoUpload
  /\ s3 = [k \in ObjectKeys |-> Absent]
  /\ index = EmptyFn
  /\ env = EnvOf(ProviderErrors, JitterSet)
  /\ \E config \in Configs, event \in Requests : qh = QueryCall(config, event)

NextQuery ==
  \/ QueryStart \/ QueryEmbedOk \/ QuerySearchOk \/ QueryCompleteOk \/ QueryCallFail

SpecQuery == InitQuery /\ [][NextQuery]_vars

----------------------------------------------------------------------------
(* The upload handler, and the notification of the object it names *)

ExpiresIn == 900

LowerCase == <<"a", "b", "c", "d", "e", "f", "g", "h", "i", "j", "k", "l", "m", "n", "o", "p", "q", "r", "s", "t", "u", "v", "w", "x", "y", "z">>
UpperCase == <<"A", "B", "C", "D", "E", "F", "G", "H", "I", "J", "K", "L", "M", "N", "O", "P", "Q", "R", "S", "T", "U", "V", "W", "X", "Y", "Z">>
Digits09 == {"0", "1", "2", "3", "4", "5", "6", "7", "8", "9"}

\* String.prototype.toLowerCase
toLowerCase(s) ==
  [k \in 1..Len(s) |->
     IF \E j \in 1..26 : UpperCase[j] = s[k]
     THEN LowerCase[CHOOSE j \in 1..26 : UpperCase[j] = s[k]] ELSE s[k]]

\* name.replace(/[^A-Za-z0-9._-]/g, '_')
safeName(name) ==
  LET safe == {LowerCase[j] : j \in 1..26} \cup {UpperCase[j] : j \in 1..26}
              \cup Digits09 \cup {".", "_", "-"}
  IN [k \in 1..Len(name) |-> IF name[k] \in safe THEN name[k] ELSE "_"]

DefaultFileName == <<"d", "o", "c", "u", "m", "e", "n", "t", ".", "p", "d", "f">>
DefaultContentType == <<"a", "p", "p", "l", "i", "c", "a", "t", "i", "o", "n", "/", "p", "d", "f">>

\* body.fileName as the caller may send it.
FileNames ==
  {<<>>,
   <<"a", ".", "p", "d", "f">>,
   <<"a", ".", "P", "D", "F">>,
   <<"a", ".", "P", "d", "f">>,
   <<" ", "a", ".", "p", "d", "f", " ">>,
   <<"a", " ", "b", ".", "p", "d", "f">>,
   <<"a", "/", "b", ".", "p", "d", "f">>,
   <<"a", ".", "t", "x", "t">>,
   <<"a", ".", "p", "d", "f", ".", "t", "x", "t">>,
   <<"p", "d", "f">>,
   <<".", "p", "d", "f">>}

FileNameFields == {NoField, NumberField(7)} \cup {StringField(s) : s \in FileNames}

ContentTypeFields == {NoField, NumberField(7), StringField(<<"t">>)}

UploadBodies ==
  {[kind |-> "none"], [kind |-> "malformed"], [kind |-> "null"]}
  \cup {[kind |-> "json", fileName |-> fn, contentType |-> ct] :
          fn \in FileNameFields, ct \in ContentTypeFields}

UploadRequests == [httpMethod : {"", "POST", "GET", "OPTIONS"}, body : UploadBodies]

\* The values of uuidv4() in the model.
Uuids == {<<"0", "f">>, <<"1", "e">>}

\* parseBody of the upload handler.
UploadParseBody(body) ==
  IF body.kind \in {"none", "malformed"}
  THEN [kind |-> "json", fileName |-> NoField, contentType |-> NoField]
  ELSE body

\* An invocation of the upload handler; bucket is BUCKET_NAME, empty when
\* the variable is not set.
UploadCall(bucket, event) ==
  [pc |-> "start", bucket |-> bucket, event |-> event,
   originalFileName |-> <<>>, contentType |-> <<>>, key |-> <<>>,
   statusCode |-> 0, message |-> "", uploadUrl |-> <<>>]

\* The handler from its entry to the await of getSignedUrl or its return.
UploadEnter(f, uuid) ==
  IF f.bucket = <<>> THEN response(f, 500, "Missing BUCKET_NAME environment variable")
  ELSE IF f.event.httpMethod # "" /\ f.event.httpMethod # "POST"
  THEN response(f, 405, "Method Not Allowed")
  ELSE LET body == UploadParseBody(f.event.body)
       IN IF body.kind = "null" THEN Caught(f)
          ELSE LET name == OrElse(body.fileName, StringField(DefaultFileName))
                   type == OrElse(body.contentType, StringField(DefaultContentType))
               IN IF name.type # "string" \/ type.type # "string" THEN Caught(f)
                  ELSE LET originalFileName == Trim(name.value)
                       IN IF ~EndsWith(toLowerCase(originalFileName), PdfSuffix)
                          THEN response(f, 400, "Only .pdf files are supported")
                          ELSE [f EXCEPT !.pc = "sign",
                                         !.originalFileName = originalFileName,
                                         !.contentType = Trim(type.value),
                                         !.key = UploadsPrefix \o uuid \o <<"-">>
                                                   \o safeName(originalFileName)]

\* { prefix: 'uploads/', suffix: '.pdf' } of the bucket's notification.
NotificationFilter(key) == StartsWith(key, UploadsPrefix) /\ EndsWith(key, PdfSuffix)

UploadStart ==
  /\ up.pc = "start"
  /\ \E uuid \in Uuids : up' = UploadEnter(up, uuid)
  /\ UNCHANGED <<split, emb, h, s3, index, env, peer, qh>>

SignOk ==
  /\ up.pc = "sign"
  /\ up' = [response(up, 200, "") EXCEPT
              !.uploadUrl = <<[bucket |-> up.bucket, key |-> up.key,
                               contentType |-> up.contentType, expiresIn |-> ExpiresIn]>>]
  /\ UNCHANGED <<split, emb, h, s3, index, env, peer, qh>>

SignFail ==
  /\ up.pc = "sign"
  /\ up' = Caught(up)
  /\ UNCHANGED <<split, emb, h, s3, index, env, peer, qh>>

\* The caller puts a document through the URL it was issued: the object is
\* created under the key, and the bucket invokes the processor with its
\* notification when the key passes the filter.
ObjectCreated ==
  /\ up.pc = "returned" /\ up.statusCode = 200
  /\ h.pc = "idle"
  /\ \E text \in DocTexts :
       s3' = [k \in DOMAIN s3 \cup {up.key} |->
                IF k = up.key THEN [present |-> TRUE, text |-> text] ELSE s3[k]]
  /\ up' = [up EXCEPT !.pc = "put"]
  /\ h' = IF NotificationFilter(up.key)
          THEN Invoked(<<[bucket |-> up.bucket, key |-> EncodeKey(up.key)]>>)
          ELSE h
  /\ UNCHANGED <<split, emb, index, env, peer, qh>>

InitUpload ==
  /\ split = NoSplit /\ emb = NoEmbed /\ h = IdleHandler /\ peer = NoPeer /\ qh = NoQuery
  /\ s3 = [k \in ObjectKeys |-> Absent]
  /\ index = EmptyFn
  /\ env = EnvOf(FewErrors, {0})
  /\ \E bucket \in {<<>>, BucketName}, event \in UploadRequests : up = UploadCall(bucket, event)

NextUpload == UploadStart \/ SignOk \/ SignFail \/ ObjectCreated

SpecUpload == InitUpload /\ [][NextUpload]_vars

----------------------------------------------------------------------------
(* Claims about splitText (SpecChunker) *)

ValidConfig(f) == f.chunkSize > 0 /\ 0 <= f.overlap /\ f.overlap < f.chunkSize

Positions(span) == {p \in 0..(span[2] - 1) : p >= span[1]}

CeilDiv(a, b) == (a + b - 1) \div b

\* C3: for windowSize > 0 and 0 <= overlap < windowSize the chunks returned
\* are the substrings at the spans s_0 = 0, e_k = min(s_k + windowSize, len),
\* s_(k+1) = e_k - overlap, the last span ends at len, the spans cover every
\* position of the text and consecutive chunks share exactly overlap
\* characters.
C3_SpansCoverWithOverlap ==
  (ValidConfig(split) /\ split.pc = "returned") =>
    LET len == Len(split.text)
        n == Len(split.chunks)
        sp == split.spans
    IN /\ Len(sp) = n
       /\ n > 0 => sp[1][1] = 0 /\ sp[n][2] = len
       /\ \A k \in 1..n :
            /\ sp[k][2] = Min(sp[k][1] + split.chunkSize, len)
            /\ split.chunks[k] = SubSeq(split.text, sp[k][1] + 1, sp[k][2])
       /\ \A k \in 1..(n - 1) :
            /\ sp[k + 1][1] = sp[k][2] - split.overlap
            /\ Cardinality(Positions(sp[k]) \cap Positions(sp[k + 1])) = split.overlap
       /\ UNION {Positions(sp[k]) : k \in 1..n} = 0..(len - 1)

C3_Witness ==
  /\ ValidConfig(split) /\ split.pc = "returned"
  /\ split.overlap > 0 /\ Len(split.chunks) >= 3
  /\ Len(split.chunks[Len(split.chunks)]) < split.chunkSize

\* C4: for len > windowSize exactly ceil((len - overlap) / (windowSize -
\* overlap)) chunks are returned, the last ending at len; len = 0 gives no
\* chunk, 0 < len <= windowSize gives one chunk equal to the text; 2400
\* characters with window 1000 and overlap 200 give the spans [0,1000),
\* [800,1800), [1600,2400).
C4_ChunkCount ==
  ValidConfig(split) =>
    LET len == Len(split.text)
        n == Len(split.chunks)
        expected == IF len = 0 THEN 0
                    ELSE IF len <= split.chunkSize THEN 1
                    ELSE CeilDiv(len - split.overlap, split.chunkSize - split.overlap)
    IN /\ n <= expected
       /\ split.pc = "loop" => n < expected \/ len = 0
       /\ split.pc = "returned" =>
            /\ n = expected
            /\ n > 0 => split.spans[n][2] = len
            /\ (0 < len /\ len <= split.chunkSize) => split.chunks = <<split.text>>
            /\ (split.text = ScenarioText /\ split.chunkSize = 1000 /\ split.overlap = 200) =>
                 split.spans = << <<0, 1000>>, <<800, 1800>>, <<1600, 2400>> >>

C4_Witness ==
  /\ split.pc = "returned" /\ split.text = ScenarioText
  /\ Len(split.chunks) = 3 /\ Len(split.chunks[3]) = 800

\* C5: a call with windowSize <= 0, overlap < 0 or overlap >= windowSize
\* fails with InvalidConfiguration before any chunk is produced; it never
\* pushes a chunk and never returns normally.
C5_InvalidConfigFails ==
  ~ValidConfig(split) => (split.chunks = <<>> /\ split.pc # "returned")

----------------------------------------------------------------------------
(* Claims about the Embedding Batcher (SpecBatcher) *)

C7_State ==
  emb.pc # "none" =>
    /\ emb.calls <= emb.maxRetries
    /\ emb.pc = "call" => Len(emb.delays) = emb.calls - 1
    /\ (emb.pc = "threw" /\ TransientStatus(StatusOf(emb.rejected))) =>
         /\ emb.calls = emb.maxRetries
         /\ emb.err = emb.rejected

C7_Step ==
  (emb.pc = "call" /\ emb'.pc \in {"call", "returned"}) =>
    /\ Len(emb.delays) = emb.calls - 1
    /\ emb.calls - 1 < emb.maxRetries
    /\ Len(emb'.vectors) = Len(emb.vectors) + Len(emb.nonEmpty)
    /\ \A j \in 1..Len(emb.nonEmpty) :
         emb'.vectors[Len(emb.vectors) + j].values = EmbeddingOf(emb.nonEmpty[j].text)

\* C7: for one batch at most maxRetries provider calls are made; when the
\* first k < maxRetries calls fail with a retryable status and call k+1
\* succeeds, its result is returned after exactly k backoff sleeps; when
\* maxRetries consecutive calls fail with a retryable status the error of the
\* last call is re-raised and no further call is made.
C7_BoundedRetries == []C7_State /\ [][C7_Step]_vars

C7_Witness ==
  /\ emb.pc = "returned" /\ emb.maxRetries = MaxRetries
  /\ emb.calls = 3 /\ Len(emb.delays) = 2
  /\ StatusOf(emb.lastErr) = 429 /\ Len(emb.vectors) > 0

\* C8: the delay slept after the failed attempt numbered a lies in
\* [min(1000 * 2^a, 8000), min(1000 * 2^a + 250, 8000)], so the delays of one
\* batch never decrease and never exceed 8000 ms.
C8_BackoffRange ==
  emb.pc # "none" =>
    /\ \A k \in 1..Len(emb.delays) :
         /\ emb.delays[k] >= Min(1000 * Pow2(k - 1), 8000)
         /\ emb.delays[k] <= Min(1000 * Pow2(k - 1) + 250, 8000)
         /\ emb.delays[k] <= 8000
    /\ \A k \in 1..(Len(emb.delays) - 1) : emb.delays[k] <= emb.delays[k + 1]

C8_Witness ==
  /\ emb.pc = "threw" /\ Len(emb.delays) = 5
  /\ emb.delays[1] = 1249 /\ emb.delays[2] = 2000 /\ emb.delays[3] = 4249
  /\ emb.delays[4] = 8000 /\ emb.delays[5] = 8000

\* The positions, in the full chunk sequence, of the chunks that are not
\* empty after trimming.
NonBlankPositions(chunks) ==
  SelectSeq([k \in 1..Len(chunks) |-> k - 1], LAMBDA p : Trim(chunks[p + 1]) # <<>>)

\* C9 as stated: the record of the i-th non-empty chunk has chunk_index = i.
C9_ChunkIndexIsRank ==
  emb.pc # "none" =>
    \A j \in 1..Len(emb.vectors) : emb.vectors[j].metadata.chunk_index = j - 1

\* C9 as amended: the record of the i-th non-empty chunk has chunk_index = the
\* position of that chunk in the full chunk sequence, which is i exactly when
\* no blank chunk precedes it and greater than i otherwise.
C9_ChunkIndexIsPosition ==
  emb.pc # "none" =>
    LET nb == NonBlankPositions(emb.chunks)
    IN /\ Len(emb.vectors) <= Len(nb)
       /\ \A j \in 1..Len(emb.vectors) :
            LET p == emb.vectors[j].metadata.chunk_index
            IN /\ p = nb[j]
               /\ p >= j - 1
               /\ (p = j - 1) <=> (\A q \in 0..(p - 1) : Trim(emb.chunks[q + 1]) # <<>>)

C9_Witness ==
  /\ emb.pc = "returned" /\ Len(emb.vectors) = 2
  /\ emb.vectors[1].metadata.chunk_index = 0
  /\ emb.vectors[2].metadata.chunk_index = 2

\* C10: chunks that are empty after trimming are never sent to the provider
\* and yield no record, a batch of only such chunks causes no call, every
\* record keeps the position p of its chunk in the full sequence (id =
\* idPrefix-p, chunk_index = p) and the records are in strictly increasing p.
C10_BlankChunksDropped ==
  emb.pc # "none" =>
    LET v == emb.vectors
        blank(p) == Trim(emb.chunks[p + 1]) = <<>>
    IN /\ \A inputs \in emb.sent :
            /\ Len(inputs) > 0
            /\ \A k \in 1..Len(inputs) : inputs[k] # <<>> /\ Trim(inputs[k]) = inputs[k]
       /\ \A j \in 1..Len(v) :
            LET p == v[j].metadata.chunk_index
            IN /\ p \in 0..(Len(emb.chunks) - 1)
               /\ ~blank(p)
               /\ v[j].metadata.text = Trim(emb.chunks[p + 1])
               /\ v[j].id = emb.idPrefix \o <<"-">> \o DecimalOf(p)
       /\ \A j \in 1..(Len(v) - 1) :
            v[j].metadata.chunk_index < v[j + 1].metadata.chunk_index
       /\ emb.pc = "returned" =>
            {v[j].metadata.chunk_index : j \in 1..Len(v)}
              = {p \in 0..(Len(emb.chunks) - 1) : ~blank(p)}
       /\ Cardinality(emb.sent)
            <= Cardinality({b \in 0..Len(emb.chunks) :
                 /\ b % emb.batchSize = 0
                 /\ \E p \in b..(b + emb.batchSize - 1) : p < Len(emb.chunks) /\ ~blank(p)})

C10_Witness ==
  /\ emb.pc = "returned" /\ emb.batchSize = 1 /\ Len(emb.chunks) = 3
  /\ Trim(emb.chunks[2]) = <<>>
  /\ Len(emb.vectors) = 2 /\ Cardinality(emb.sent) = 2
  /\ emb.vectors[2].id = <<"d", "-", "2">>

----------------------------------------------------------------------------
(* Claims about the retry policy within an ingestion (SpecIngest) *)

\* A call rejected with another status than 429 or 5xx: no further call and
\* no sleep for it, the error reaches the handler's caller, nothing was
\* upserted for the document and its source object was not deleted.
C6_Abort ==
  (emb.pc = "threw" /\ emb.rejected # NoError /\ ~TransientStatus(StatusOf(emb.rejected))) =>
    /\ emb.calls = Len(emb.rejections)
    /\ Len(emb.delays) = Len(emb.rejections) - 1
    /\ emb.err = emb.rejected
    /\ h.pc = "failed"
    /\ h.error = [source |-> "provider", err |-> emb.rejected]
    /\ h.upserts = 0
    /\ ~h.deleted
    /\ s3[h.key].present
    /\ \A id \in DOMAIN index : index[id].metadata.filename # h.key

\* C6 as stated: a rejected provider call is followed by another call for the
\* batch if and only if its status is 429 or 5xx, and any other error aborts
\* the ingestion.
C6_RetriedIffTransient ==
  /\ emb.pc \notin {"none", "sleep"} =>
       \A j \in 1..Len(emb.rejections) : (j < emb.calls) <=> emb.rejections[j]
  /\ C6_Abort

\* C6 as amended: a rejected provider call is followed by another call for
\* the batch if and only if its status is 429 or 5xx and it was not the
\* maxRetries-th call for the batch; any other error aborts the ingestion.
C6_RetriedIffTransientBelowCap ==
  /\ emb.pc \notin {"none", "sleep"} =>
       \A j \in 1..Len(emb.rejections) :
         (j < emb.calls) <=> (emb.rejections[j] /\ j < emb.maxRetries)
  /\ C6_Abort

C6_Witness ==
  /\ h.pc = "failed" /\ emb.pc = "threw"
  /\ Len(emb.rejections) = 3 /\ emb.rejections[2] /\ ~emb.rejections[3]
  /\ StatusOf(emb.rejected) = 499 /\ Len(emb.delays) = 2
  /\ Len(emb.vectors) > 0 /\ index = EmptyFn

----------------------------------------------------------------------------
(* Claims about record ids (SpecReingest, Spec) *)

\* C1: every complete ingestion of the same key and text produces the same
\* sequence of record ids, and leaves under these ids the records the first
\* complete ingestion left.
C1_ReingestSameIds ==
  h.pc = "delete" =>
    LET d == <<h.key, h.text>>
    IN /\ d \in DOMAIN env.first
       /\ [j \in 1..Len(h.vectors) |-> h.vectors[j].id] = env.first[d].ids
       /\ [id \in IdsOf(h.vectors) |-> index[id]] = env.first[d].records

C1_Witness ==
  /\ h.pc = "delete" /\ Len(h.vectors) = 3
  /\ <<h.key, h.text>> \in DOMAIN env.first
  /\ env.first[<<h.key, h.text>>].n = 2

\* C2: a record id belongs to one (document key, chunk index) pair only: a
\* record the handler is writing has the id of an indexed record only when
\* both come from the same key and the same chunk index, so no record of a
\* document with another key is overwritten.
C2_IdsUniquePerKeyAndChunk ==
  \A j \in 1..Len(h.vectors) :
    LET v == h.vectors[j]
    IN v.id \in DOMAIN index =>
         /\ index[v.id].metadata.filename = v.metadata.filename
         /\ index[v.id].metadata.chunk_index = v.metadata.chunk_index

----------------------------------------------------------------------------
(* Claims about the handler's writes (SpecReingest) *)

\* The provider answering every call of embedAllChunks.
RECURSIVE EmbedAllOk(_)
EmbedAllOk(f) == IF f.pc = "call" THEN EmbedAllOk(EmbedResolved(f)) ELSE f

\* The records an ingestion of the document writes when no call fails.
RecordsOf(bucketName, key, text) ==
  EmbedAllOk(EmbedCall(splitText(text, ChunkSize, ChunkOverlap), IdPrefix(key), key,
                       SourceUrl(bucketName, key), EmbedBatchSize, MaxRetries)).vectors

\* The records of the index that carry the key as their filename.
IndexedOf(key) == {index[id] : id \in {x \in DOMAIN index : index[x].metadata.filename = key}}

SeqRange(s) == {s[j] : j \in 1..Len(s)}

\* An invocation that ended while it was writing the records of a document.
C11_EndedInUpserts(f) ==
  f.pc = "failed" /\ f.error.source \in {"upsert", "timeout"} /\ f.upserts >= 1 /\ ~f.deleted

C11_State ==
  /\ C11_EndedInUpserts(h) =>
       /\ h.vectors = RecordsOf(h.bucketName, h.key, h.text)
       /\ h.i = (h.upserts - 1) * UpsertBatchSize
       /\ \A j \in 1..h.i : h.vectors[j].id \in DOMAIN index /\ index[h.vectors[j].id] = h.vectors[j]
       /\ h.log[Len(h.log)] = Call("upsert", h, h.i)
       /\ \A k \in 1..Len(h.log) : h.log[k].op # "delete"
       /\ s3[h.key] = [present |-> TRUE, text |-> h.text]
  /\ h.pc = "delete" =>
       /\ h.vectors = RecordsOf(h.bucketName, h.key, h.text)
       /\ IndexedOf(h.key) = SeqRange(h.vectors)
       /\ \A j \in 1..Len(h.vectors) : index[h.vectors[j].id] = h.vectors[j]

C11_Step ==
  /\ (h.pc = "upsert" /\ h' # h /\ h'.log = h.log) =>
       /\ h'.pc = "failed" /\ h'.error.source \in {"upsert", "timeout"}
       /\ C11_EndedInUpserts(h')
       /\ s3' = s3
       /\ \A id \in DOMAIN index : id \in DOMAIN index' /\ index'[id] = index[id]
  /\ (h.pc = "failed" /\ h'.pc = "failed") => (index' = index /\ s3' = s3)

\* C11: when an upsert batch fails or the invocation is cut off while the
\* records of a document are written in consecutive batches, the records of
\* the earlier batches stay in the index, no later batch is attempted, the
\* source object is not deleted and the invocation ends with the error; a
\* later complete ingestion of the same document writes the same records
\* under the same ids and leaves the index with exactly the document's full
\* record set.
C11_PartialUpsertThenRerun == []C11_State /\ [][C11_Step]_vars

C11_Witness ==
  /\ h.pc = "delete" /\ h.prev.source = "upsert" /\ env.invocations = 2
  /\ Len(h.vectors) = 3 /\ h.upserts = 2
  /\ env.first[<<h.key, h.text>>].n = 1

----------------------------------------------------------------------------
(* Claims about concurrent invocations (SpecConcurrent) *)

Invocations == {h, peer.h}

OpsOf(f, op) == {k \in 1..Len(f.log) : f.log[k].op = op}

\* The first record indices of the upsert batches of n records.
BatchStarts(n) == {i \in 0..(n - 1) : i % UpsertBatchSize = 0}

\* The delete of the document was issued after every upsert batch of it was
\* issued, in order, by the same invocation, and none of them failed.
C12_DeleteAfterUpserts(f) ==
  \A d \in OpsOf(f, "delete") :
    /\ Len(f.vectors) > 0
    /\ f.i >= Len(f.vectors)
    /\ {f.log[k].i : k \in {u \in OpsOf(f, "upsert") : u < d}} = BatchStarts(Len(f.vectors))
    /\ f.error.source \in {"none", "s3-delete"}

\* The index holds the record of every chunk of the document that is not
\* blank.
C12_Indexed(f) ==
  LET docs == splitText(f.text, ChunkSize, ChunkOverlap)
  IN \A p \in SeqRange(NonBlankPositions(docs)) :
       \E id \in DOMAIN index :
         /\ index[id].metadata.filename = f.key
         /\ index[id].metadata.chunk_index = p
         /\ index[id].metadata.text = Trim(docs[p + 1])

\* C12: the handler has issued the delete of a source object only after
\* every upsert batch of the document succeeded in the same invocation, so
\* when the source is deleted the index holds a record for each of its
\* non-blank chunks; an invocation that failed before, or that ended as a
\* no-op, has issued no delete.
C12_DeletedImpliesIndexed ==
  \A f \in Invocations :
    /\ C12_DeleteAfterUpserts(f)
    /\ (OpsOf(f, "delete") # {} /\ ~s3[f.key].present) => C12_Indexed(f)
    /\ (f.pc = "failed" /\ f.error.source # "s3-delete") => OpsOf(f, "delete") = {}
    /\ (f.pc = "done" /\ f.vectors = <<>>) => OpsOf(f, "delete") = {}

\* The part of C12 that is about the order of the calls alone.
C12_Order ==
  \A f \in Invocations :
    /\ C12_DeleteAfterUpserts(f)
    /\ (f.pc = "failed" /\ f.error.source # "s3-delete") => OpsOf(f, "delete") = {}
    /\ (f.pc = "done" /\ f.vectors = <<>>) => OpsOf(f, "delete") = {}

\* Both invocations ingest the same document, and one of them at least has
\* read it.
SameDocument == h.key = peer.h.key /\ (h.text # <<>> \/ peer.h.text # <<>>)

\* The records one ingestion of that document writes, by id.
SingleIngestion ==
  LET text == IF h.text # <<>> THEN h.text ELSE peer.h.text
      v == RecordsOf(h.bucketName, h.key, text)
  IN [id \in IdsOf(v) |-> v[CHOOSE j \in 1..Len(v) : v[j].id = id]]

\* C13: while two concurrent invocations ingest the same document, under
\* every interleaving of their calls, each record of the index has the value
\* one ingestion alone would write, and once one of the invocations has
\* completed its upserts the index holds the document's full record set, as
\* after one ingestion.
C13_DuplicateIngestion ==
  SameDocument =>
    /\ \A id \in DOMAIN index :
         id \in DOMAIN SingleIngestion /\ index[id] = SingleIngestion[id]
    /\ (\E f \in Invocations : OpsOf(f, "delete") # {}) => index = SingleIngestion

C13_Witness ==
  /\ SameDocument /\ Len(h.vectors) = 3
  /\ OpsOf(h, "delete") # {}
  /\ peer.h.pc = "upsert" /\ peer.h.i = UpsertBatchSize
  /\ peer.h.text = h.text
  /\ index = SingleIngestion

\* C14 as stated: the invocations share no mutable state but the index, so
\* nothing but an invocation itself changes what it reads, and whether it
\* ends in success or failure does not depend on the other invocation: when
\* no collaborator fails on its own, it does not fail.
C14_OutcomeIndependent ==
  \A f \in Invocations :
    /\ OpsOf(f, "delete") = {} => s3[f.key].present
    /\ ~env.faults => f.pc # "failed"

Other(f) == IF f = h THEN peer.h ELSE h

C14_State ==
  \A f \in Invocations :
    /\ f.pc \in {"upsert", "delete"} => f.vectors = RecordsOf(f.bucketName, f.key, f.text)
    /\ (f.pc = "done" /\ f.text # <<>>) =>
         /\ f.vectors = RecordsOf(f.bucketName, f.key, f.text)
         /\ {f.log[k].i : k \in OpsOf(f, "upsert")} = BatchStarts(Len(f.vectors))
    /\ f.key # Other(f).key =>
         /\ OpsOf(f, "delete") = {} => s3[f.key].present
         /\ ~env.faults => f.pc # "failed"
    /\ (~env.faults /\ f.pc = "failed") =>
         /\ f.error.source = "s3-get" /\ f.log = <<Call("get", f, 0)>>
         /\ Other(f).key = f.key /\ OpsOf(Other(f), "delete") # {}
         /\ ~s3[f.key].present

C14_Step ==
  /\ index' # index =>
       \E f \in Invocations :
         f.pc = "upsert" /\ index' = Upserted(index, Slice(f.vectors, f.i, f.i + UpsertBatchSize))
  /\ s3' # s3 =>
       \E f \in Invocations :
         /\ f.pc = "delete" /\ f.i >= Len(f.vectors)
         /\ s3' = [s3 EXCEPT ![f.key] = Absent]

\* C14 as amended: concurrent invocations share the index, which they change
\* only through upserts, and the bucket, from which an invocation deletes its
\* own source object after its last upsert; whether an invocation ends in
\* success or failure, and which records it writes, does not depend on an
\* invocation for a different document; of two invocations for the same
\* document, one that sends GetObject after the other's delete fails there.
C14_SharedIndexAndBucket == []C14_State /\ [][C14_Step]_vars

C14_Witness ==
  /\ ~env.faults /\ h.key # peer.h.key
  /\ h.pc = "done" /\ peer.h.pc = "done"
  /\ Len(h.vectors) = 3 /\ Len(peer.h.vectors) = 3
  /\ ~s3[h.key].present /\ ~s3[peer.h.key].present

----------------------------------------------------------------------------
(* Claims about one event of several notifications (SpecEvents) *)

\* The notification names a key with the prefix and the suffix the handler
\* asks for.
Eligible(n) ==
  StartsWith(DecodeKey(n.key), UploadsPrefix) /\ EndsWith(DecodeKey(n.key), PdfSuffix)

StorageOps == {"get", "upsert", "delete"}

\* The source of the error a failed call of the kind op raises.
RaisedBy(op) ==
  IF op = "get" THEN "s3-get" ELSE IF op = "embed" THEN "provider"
  ELSE IF op = "upsert" THEN "upsert" ELSE "s3-delete"

\* The invocation that failed raised the error of the call it had issued
\* last, and issued no call for a later notification.
C15_FailFast ==
  h.pc = "failed" =>
    /\ h.log # <<>>
    /\ h.log[Len(h.log)].rec = h.rec
    /\ h.error.source = RaisedBy(h.log[Len(h.log)].op)
    /\ h.error.source = "provider" => (emb.pc = "threw" /\ h.error.err = emb.rejected)
    /\ \A k \in 1..Len(h.log) : h.log[k].rec <= h.rec

C15_Step ==
  (h.pc = "failed" /\ h'.pc = "failed") => UNCHANGED <<h, emb, s3, index>>

\* C15 as stated: the storage get, every upsert batch and the storage delete
\* are issued at most once per document in one invocation.
C15_OncePerDocument ==
  /\ C15_FailFast
  /\ \A k1 \in 1..Len(h.log), k2 \in 1..Len(h.log) :
       (k1 < k2 /\ h.log[k1].op \in StorageOps) =>
         ~(/\ h.log[k1].op = h.log[k2].op
           /\ h.log[k1].key = h.log[k2].key
           /\ h.log[k1].i = h.log[k2].i)

C15_State ==
  /\ C15_FailFast
  /\ \A k1 \in 1..Len(h.log), k2 \in 1..Len(h.log) :
       (k1 < k2 /\ h.log[k1].op \in StorageOps) =>
         ~(/\ h.log[k1].op = h.log[k2].op
           /\ h.log[k1].rec = h.log[k2].rec
           /\ h.log[k1].i = h.log[k2].i)
  /\ \A r \in 1..Min(h.rec, Len(h.event)) :
       Eligible(h.event[r]) =>
         Cardinality({k \in OpsOf(h, "get") : h.log[k].rec = r}) = 1

\* C15 as amended: once the processing of one notification fails, the
\* invocation raises that error and issues no call for a later notification
\* of the event; within one invocation the storage get, each upsert batch
\* and the storage delete are issued at most once per notification, and
\* only provider calls are repeated; a document that two notifications of
\* the event name is fetched once for each of them.
C15_FailFastOncePerNotification == []C15_State /\ [][C15_Step]_vars

C15_Witness ==
  /\ h.pc = "failed" /\ h.rec = 1 /\ Len(h.event) = 2
  /\ Eligible(h.event[2]) /\ h.event[2] # h.event[1]
  /\ h.error.source = "provider" /\ StatusOf(h.error.err) = 400
  /\ emb.calls = 2 /\ Len(emb.vectors) = 2
  /\ h.log = <<Call("get", h, 0), Call("embed", h, 0), Call("embed", h, 2)>>

\* The key the notification at position r names.
KeyAt(r) == DecodeKey(h.event[r].key)

\* The calls the invocation has issued for the notification at position r.
OpsAt(r) == {h.log[k].op : k \in {x \in 1..Len(h.log) : h.log[x].rec = r}}

\* The notification at position r names an object whose extracted text is
\* empty or whitespace only.
BlankDoc(r) ==
  /\ Eligible(h.event[r])
  /\ s3[KeyAt(r)].present /\ Trim(s3[KeyAt(r)].text) = <<>>

C16_State ==
  /\ \A k \in 1..Len(h.log) :
       /\ StartsWith(h.log[k].key, UploadsPrefix) /\ EndsWith(h.log[k].key, PdfSuffix)
       /\ h.log[k].key = KeyAt(h.log[k].rec)
  /\ \A r \in 1..Len(h.event) :
       /\ ~Eligible(h.event[r]) =>
            /\ OpsAt(r) = {}
            /\ h.rec # r
            /\ \A k \in 1..Len(h.warns) : h.warns[k].rec # r
       /\ BlankDoc(r) =>
            /\ OpsAt(r) \subseteq {"get"}
            /\ (h.rec = r /\ h.pc = "failed") => h.error.source = "s3-get"
            /\ (h.rec = r /\ h.pc # "failed") => (h.pc = "get" /\ emb = NoEmbed)
       /\ (r < h.rec /\ Eligible(h.event[r])) => "get" \in OpsAt(r)
  /\ h.pc = "done" => h.rec = Len(h.event) + 1
  /\ h.pc \in {"get", "embed", "upsert", "delete", "failed"} =>
       (h.rec \in 1..Len(h.event) /\ Eligible(h.event[h.rec]))

C16_Step ==
  (h.pc = "get" /\ BlankDoc(h.rec) /\ h' # h /\ h'.pc # "failed") =>
    /\ h'.rec > h.rec
    /\ h'.pc \in {"get", "done"}
    /\ h'.pc = "get" => h'.log = Append(h.log, Call("get", h', 0))
    /\ h'.pc = "done" => h'.log = h.log
    /\ h'.error = NoThrow
    /\ emb' = NoEmbed /\ index' = index /\ s3' = s3

\* C16: for a notification whose key lacks the prefix 'uploads/' or the
\* suffix '.pdf', or whose extracted text is empty or whitespace only, the
\* handler issues no provider call, no upsert and no delete, raises no
\* error, and goes on to the next notification of the event.
C16_SkippedIsNoOp == []C16_State /\ [][C16_Step]_vars

C16_Witness ==
  /\ h.pc = "done" /\ Len(h.event) = 2
  /\ ~Eligible(h.event[1]) /\ BlankDoc(2)
  /\ OpsAt(1) = {} /\ OpsAt(2) = {"get"} /\ Len(h.log) = 1
  /\ h.warns = <<[rec |-> 2, why |-> "no-text"]>>
  /\ h.error = NoThrow /\ index = EmptyFn /\ s3[KeyAt(2)].present

\* The reasons the handler left the notification at position r with a
\* warning.
WarnsAt(r) == {h.warns[k].why : k \in {x \in 1..Len(h.warns) : h.warns[x].rec = r}}

\* The notification at position r was fully upserted and its source deleted.
Ingested(r) ==
  /\ {"get", "upsert", "delete"} \subseteq OpsAt(r)
  /\ WarnsAt(r) = {}
  /\ ~s3[KeyAt(r)].present

\* The notification at position r ended as a no-op for one of the reasons.
NoOp(r, reasons) ==
  /\ WarnsAt(r) # {} /\ WarnsAt(r) \subseteq reasons
  /\ OpsAt(r) \subseteq {"get", "embed"}
  /\ "no-text" \in WarnsAt(r) => BlankDoc(r)

\* What the handler does on the way to its return, whatever the reasons.
C17_Raised ==
  /\ h.pc = "delete" =>
       /\ h.i >= Len(h.vectors)
       /\ \A j \in 1..Len(h.vectors) : h.vectors[j].id \in DOMAIN index
  /\ h.pc = "failed" => h.error.source \in {"s3-get", "provider", "upsert", "s3-delete"}
  /\ h.pc \in {"done", "failed"} =>
       \A r \in 1..Len(h.event) :
         (Eligible(h.event[r]) /\ r < h.rec /\ "delete" \in OpsAt(r)) =>
           ~s3[KeyAt(r)].present

\* C17 as stated: the handler returns success only if every eligible
\* notification of the event was fully upserted and its source deleted, or
\* ended as a no-op for an empty extracted text or for zero records.
C17_SuccessOnlyIfIngestedOrTwoNoOps ==
  /\ C17_Raised
  /\ h.pc = "done" =>
       \A r \in 1..Len(h.event) :
         Eligible(h.event[r]) => (Ingested(r) \/ NoOp(r, {"no-text", "no-vectors"}))

\* C17 as amended: the handler returns success only if every eligible
\* notification of the event was fully upserted and its source deleted, or
\* ended as a no-op for one of three reasons: storage returned no body, the
\* extracted text is empty, or no record was embedded; every other outcome,
\* a failed delete after a successful upsert included, is raised.
C17_SuccessOnlyIfIngestedOrNoOp ==
  /\ C17_Raised
  /\ h.pc = "done" =>
       \A r \in 1..Len(h.event) :
         Eligible(h.event[r]) =>
           (Ingested(r) \/ NoOp(r, {"no-body", "no-text", "no-vectors"}))

C17_Witness ==
  /\ h.pc = "done" /\ Len(h.event) = 2
  /\ Ingested(1) /\ NoOp(2, {"no-body"}) /\ ~BlankDoc(2)
  /\ Cardinality(DOMAIN index) = 3

----------------------------------------------------------------------------
(* Claims about the query handler (SpecQuery) *)

\* The request carries no query, or one that is empty after trimming.
EmptyQuery(event) ==
  LET body == parseBody(event.body)
  IN /\ body.kind = "json"
     /\ \/ body.query.type = "absent"
        \/ body.query.type = "string" /\ Trim(body.query.value) = <<>>

----------------------------------------------------------------------------
(* Claims about the order of the calls of one ingestion (SpecIngest) *)

\* The calls that were issued and have not returned.
Outstanding ==
  (IF h.pc = "get" THEN {"get"} ELSE {})
  \cup (IF emb.pc = "call" THEN {"embed"} ELSE {})
  \cup (IF h.pc = "upsert" THEN {"upsert"} ELSE {})
  \cup (IF h.pc = "delete" THEN {"delete"} ELSE {})

\* The chunks before position start that do not trim to nothing.
NonBlankBefore(chunks, start) ==
  {p \in 0..(Min(start, Len(chunks)) - 1) : Trim(chunks[p + 1]) # <<>>}

\* The positions of the log entries of op, in the order of the log.
LogOf(f, op) == SelectSeq(f.log, LAMBDA c : c.op = op)

C19_State ==
  /\ Cardinality(Outstanding) <= 1
  \* batch N+1 is called with the records of every batch before it
  /\ emb.pc \in {"call", "sleep"} =>
       /\ h.pc = "embed"
       /\ emb.start % EmbedBatchSize = 0
       /\ Len(emb.vectors) = Cardinality(NonBlankBefore(emb.chunks, emb.start))
       /\ OpsOf(h, "upsert") = {}
  /\ \A k \in 2..Len(LogOf(h, "embed")) : LogOf(h, "embed")[k - 1].i < LogOf(h, "embed")[k].i
  \* the first upsert is issued with the records of every batch
  /\ OpsOf(h, "upsert") # {} =>
       /\ emb = NoEmbed
       /\ h.vectors = RecordsOf(h.bucketName, h.key, h.text)
       /\ \A e \in OpsOf(h, "embed"), u \in OpsOf(h, "upsert") : e < u
  \* upsert batch M+1 is issued when the batches before it are in the index
  /\ \A k \in 1..Len(LogOf(h, "upsert")) : LogOf(h, "upsert")[k].i = (k - 1) * UpsertBatchSize
  /\ h.pc = "upsert" =>
       /\ h.i = (Len(LogOf(h, "upsert")) - 1) * UpsertBatchSize
       /\ \A j \in 1..Len(h.vectors) :
            (h.vectors[j].id \in DOMAIN index) <=> j <= h.i
       /\ \A j \in 1..h.i : index[h.vectors[j].id] = h.vectors[j]

\* A step issues one call at most, and only when no other call is left
\* outstanding by it.
C19_Step ==
  /\ Len(h'.log) <= Len(h.log) + 1
  /\ Len(h'.log) = Len(h.log) + 1 => SubSeq(h'.log, 1, Len(h.log)) = h.log
  /\ Outstanding' \subseteq Outstanding \/ Cardinality(Outstanding') = 1

\* C19: within one document's ingestion one external call at most is
\* outstanding at any time; the embedding call of batch N+1 starts only after
\* the call of batch N returned its embeddings, the first upsert starts only
\* after every embedding batch was embedded, and upsert batch M+1 starts
\* only after upsert batch M succeeded.
C19_OneCallAtATime == []C19_State /\ [][C19_Step]_vars

C19_Witness ==
  /\ h.pc = "upsert" /\ h.i = UpsertBatchSize
  /\ Len(LogOf(h, "embed")) = 2 /\ Len(LogOf(h, "upsert")) = 2
  /\ emb = NoEmbed

----------------------------------------------------------------------------
(* Claims about the redelivery of an event (SpecEvents) *)

\* The invocation is the redelivery of an event whose first delivery failed
\* at the notification at position k, after the documents of the
\* notifications before it were ingested and deleted.
RedeliveredAfter(k) ==
  /\ h.prev.source # NoThrow.source /\ h.prev.rec = k
  /\ ~env.faults
  /\ \A j \in 1..(k - 1) : Eligible(h.event[j]) /\ ~s3[KeyAt(j)].present

\* C20: when the first delivery of d1..dn failed at dk after d1..d(k-1) were
\* ingested and deleted, the redelivery of the same notifications, in which
\* no collaborator fails but storage reporting the deleted objects as
\* missing, ends with dk..dn ingested.
C20_RedeliveryIngestsTheRest ==
  \A k \in 1..Len(h.event) :
    (RedeliveredAfter(k) /\ h.pc \in {"done", "failed"}) =>
      /\ h.pc = "done"
      /\ \A r \in k..Len(h.event) :
           Eligible(h.event[r]) => Ingested(r) \/ NoOp(r, {"no-body", "no-text", "no-vectors"})

\* The redelivery fails at the first notification, whose document the first
\* delivery deleted, and issues no call for the notification that had failed.
C20_Poisoned ==
  /\ RedeliveredAfter(2) /\ KeyAt(1) # KeyAt(2)
  /\ h.pc = "failed" /\ h.rec = 1 /\ h.error.source = "s3-get"
  /\ OpsAt(2) = {}
  /\ s3[KeyAt(2)].present /\ Trim(s3[KeyAt(2)].text) # <<>>

----------------------------------------------------------------------------
(* Claims about the sleeps of createEmbeddingsWithRetry (SpecBatcher) *)

\* The calls of the current batch that were rejected with a retryable status.
RetryableRejections == {k \in 1..Len(emb.rejections) : emb.rejections[k]}

C21_State ==
  emb.pc # "none" =>
    /\ Len(emb.delays) = Cardinality(RetryableRejections)
    /\ (emb.pc = "threw" /\ Retryable(StatusOf(emb.rejected))) =>
         /\ emb.calls = emb.maxRetries
         /\ emb.attempt = emb.maxRetries
         /\ Len(emb.delays) = emb.maxRetries

C21_Step ==
  /\ (emb.pc = "call" /\ emb'.pc = "sleep") =>
       /\ Retryable(StatusOf(emb'.rejected))
       /\ Len(emb'.delays) = Len(emb.delays) + 1
  /\ (emb.pc = "call" /\ emb'.pc = "threw") =>
       /\ ~Retryable(StatusOf(emb'.rejected))
       /\ emb'.delays = emb.delays
  /\ (emb.pc = "sleep" /\ emb'.pc = "threw") =>
       /\ emb.calls = emb.maxRetries
       /\ emb'.err = emb.rejected /\ emb'.calls = emb.calls /\ emb'.delays = emb.delays

\* C21: in createEmbeddingsWithRetry the number of backoff sleeps equals the
\* number of provider calls that were rejected with a retryable status; when
\* the calls are exhausted, the sleep after the last (maxRetries-th) rejected
\* call is slept before the error is re-raised.
C21_SleepPerRetryableFailure == []C21_State /\ [][C21_Step]_vars

C21_Witness ==
  /\ emb.pc = "threw" /\ emb.maxRetries = MaxRetries
  /\ emb.calls = MaxRetries /\ Len(emb.delays) = MaxRetries
  /\ Cardinality(RetryableRejections) = MaxRetries
  /\ emb.err = emb.rejected /\ StatusOf(emb.err) = 503

----------------------------------------------------------------------------
(* Claims about the keys the upload handler issues (SpecUpload) *)

\* The processor, invoked with the notification of the key, goes on to fetch
\* the object instead of skipping it.
ProcessorAccepts(bucket, key) ==
  LET f == Invoked(<<[bucket |-> bucket, key |-> EncodeKey(key)]>>)
  IN f.pc = "get" /\ f.key = key

\* C22: every object key the upload handler issues with status 200 starts
\* with 'uploads/' and ends with '.pdf', so it passes the filter of the
\* bucket's notification and the key checks of the processor, and a document
\* put through the issued URL is not skipped: the processor fetches it.
C22_IssuedKeyIsEligible ==
  (up.pc \in {"returned", "put"} /\ up.statusCode = 200) =>
    /\ StartsWith(up.key, UploadsPrefix) /\ EndsWith(up.key, PdfSuffix)
    /\ NotificationFilter(up.key)
    /\ ProcessorAccepts(up.bucket, up.key)
    /\ up.pc = "put" => (h.pc = "get" /\ h.key = up.key)

\* A key was issued for a file name with an upper-case extension, the
\* document was put under it and the processor was not invoked.
C22_NeverIngested ==
  /\ up.pc = "put" /\ up.statusCode = 200
  /\ up.originalFileName = <<"a", ".", "P", "D", "F">>
  /\ s3[up.key].present
  /\ ~NotificationFilter(up.key) /\ ~ProcessorAccepts(up.bucket, up.key)
  /\ h.pc = "idle"

\* The keys issued for file names whose extension is '.pdf' in lower case
\* are eligible and their documents are fetched.
C22_LowerCaseIsEligible ==
  (up.pc \in {"returned", "put"} /\ up.statusCode = 200
     /\ EndsWith(up.originalFileName, PdfSuffix)) =>
    /\ NotificationFilter(up.key)
    /\ ProcessorAccepts(up.bucket, up.key)
    /\ up.pc = "put" => (h.pc = "get" /\ h.key = up.key)

====
